---------------------------- MODULE Spec2Model ----------------------------
(***************************************************************************)
(* Verification model of the transform pipeline of eventbrite_extractor    *)
(* (src/src/eventbrite_extractor/transform.py).                            *)
(*                                                                         *)
(* Python values are represented as follows.                               *)
(*   str            a sequence of characters; a character is a one-token   *)
(*                  TLA+ string ("a", "-", "U+20AC" for the euro sign)     *)
(*   Optional[str]  None is <<>>, a present string s is <<s>>              *)
(*   date           a triple <<year, month, day>>                          *)
(*   Event          a record of the fields transform.py reads or writes    *)
(*   list[Event]    a sequence of references (indices into heap)           *)
(***************************************************************************)
EXTENDS Integers, Sequences, FiniteSets, TLC

VARIABLES
    heap,     \* the Event objects: heap[r] is the object behind reference r
    events,   \* the caller's list of Event references
    call,     \* the call made last: the function, its arguments, and the
              \* Event objects as they were when it was entered
    ret       \* what that call returned, in the field of its return type

vars == <<heap, events, call, ret>>

---------------------------------------------------------------------------
(* Bounds of the model *)

MaxEvents == 3
MaxTags == 3
MaxDisplayEvents == 2
MaxFrameEvents == 2

---------------------------------------------------------------------------
(* Python str primitives *)

None == <<>>
Some(s) == <<s>>

\* Python truthiness of an Optional[str]: None and "" are falsy.
Truthy(o) == o # None /\ o[1] # <<>>

Digits == <<"0", "1", "2", "3", "4", "5", "6", "7", "8", "9">>
Upper == <<"A", "B", "C", "D", "E", "F", "G", "H", "I", "J", "K", "L", "M",
           "N", "O", "P", "Q", "R", "S", "T", "U", "V", "W", "X", "Y", "Z">>
Lower == <<"a", "b", "c", "d", "e", "f", "g", "h", "i", "j", "k", "l", "m",
           "n", "o", "p", "q", "r", "s", "t", "u", "v", "w", "x", "y", "z">>

IndexIn(c, seq) == CHOOSE i \in 1..Len(seq) : seq[i] = c

Range(seq) == { seq[i] : i \in 1..Len(seq) }

\* the code points of the characters other than digits and ASCII letters
OtherOrd ==
    << <<" ", 32>>, <<"$", 36>>, <<",", 44>>, <<"-", 45>>, <<".", 46>>,
       <<":", 58>>, <<"U+00A3", 163>>, <<"U+20AC", 8364>> >>

\* ord(c) as a table: the Unicode code point, which str comparison goes by
OrdTable ==
    [c \in Range(Digits) \cup Range(Upper) \cup Range(Lower)
           \cup { OtherOrd[i][1] : i \in 1..Len(OtherOrd) } |->
        IF c \in Range(Digits) THEN 47 + IndexIn(c, Digits)
        ELSE IF c \in Range(Upper) THEN 64 + IndexIn(c, Upper)
        ELSE IF c \in Range(Lower) THEN 96 + IndexIn(c, Lower)
        ELSE OtherOrd[CHOOSE i \in 1..Len(OtherOrd) : OtherOrd[i][1] = c][2]]

Ord(c) == OrdTable[c]

\* str.lower() as a table over the characters it changes
LowerTable == [c \in Range(Upper) |-> Lower[IndexIn(c, Upper)]]

\* str.lower() on one character
LowerChar(c) == IF c \in DOMAIN LowerTable THEN LowerTable[c] ELSE c

\* str.lower()
StrLower(s) == [i \in 1..Len(s) |-> LowerChar(s[i])]

\* s.startswith(p)
StartsWith(s, p) == Len(p) <= Len(s) /\ SubSeq(s, 1, Len(p)) = p

\* p in s  (literal substring)
Contains(s, p) ==
    \E i \in 0..(Len(s) - Len(p)) : SubSeq(s, i + 1, i + Len(p)) = p

\* a < b on str from position k on, the characters before k being equal
RECURSIVE StrLessFrom(_, _, _)
StrLessFrom(a, b, k) ==
    IF k > Len(b) THEN FALSE
    ELSE IF k > Len(a) THEN TRUE
    ELSE IF a[k] = b[k] THEN StrLessFrom(a, b, k + 1)
    ELSE Ord(a[k]) < Ord(b[k])

\* a < b on str: lexicographic by code point, a proper prefix comes first
StrLess(a, b) == StrLessFrom(a, b, 1)

StrLeq(a, b) == a = b \/ StrLess(a, b)

RECURSIVE JoinWith(_, _)
\* sep.join(parts)
JoinWith(sep, parts) ==
    IF parts = <<>> THEN <<>>
    ELSE IF Len(parts) = 1 THEN parts[1]
    ELSE parts[1] \o sep \o JoinWith(sep, Tail(parts))

---------------------------------------------------------------------------
(* The Event object and the output record *)

\* An Event with the fields of the data model that transform.py reads or
\* writes.  Strings are Optional[str] where the data model says "or absent".
Event(id, title, sdate, stime, canc, free, online, price, cur, venue, tags) ==
    [event_id |-> id, title |-> title, start_date |-> sdate,
     start_time |-> stime, is_cancelled |-> canc, is_free |-> free,
     is_online |-> online, price |-> price, currency |-> cur,
     venue_name |-> venue, tags |-> tags]

\* Event.to_dict(): a mapping holding every field of the event.
to_dict(event) == event

---------------------------------------------------------------------------
(* datetime.date *)

DigitTable == [c \in Range(Digits) |-> IndexIn(c, Digits) - 1]

IsDigit(c) == c \in DOMAIN DigitTable
DigitVal(c) == DigitTable[c]

\* int() of a run of decimal digits
RECURSIVE DigitsToInt(_)
DigitsToInt(s) ==
    IF s = <<>> THEN 0
    ELSE 10 * DigitsToInt(SubSeq(s, 1, Len(s) - 1)) + DigitVal(s[Len(s)])

AllDigits(s) == \A i \in 1..Len(s) : IsDigit(s[i])

IsLeap(y) == (y % 4 = 0) /\ ((y % 100 # 0) \/ (y % 400 = 0))

DaysInMonth(y, m) ==
    IF m = 2 THEN (IF IsLeap(y) THEN 29 ELSE 28)
    ELSE IF m \in {4, 6, 9, 11} THEN 30 ELSE 31

\* date(y, m, d) is constructible
ValidDate(y, m, d) ==
    /\ y >= 1 /\ y <= 9999
    /\ m >= 1 /\ m <= 12
    /\ d >= 1 /\ d <= DaysInMonth(y, m)

\* date.fromisoformat(s) for the format YYYY-MM-DD: [ok |-> FALSE] stands for
\* ValueError.
fromisoformat(s) ==
    IF /\ Len(s) = 10
       /\ s[5] = "-" /\ s[8] = "-"
       /\ AllDigits(SubSeq(s, 1, 4))
       /\ AllDigits(SubSeq(s, 6, 7))
       /\ AllDigits(SubSeq(s, 9, 10))
    THEN LET y == DigitsToInt(SubSeq(s, 1, 4))
             m == DigitsToInt(SubSeq(s, 6, 7))
             d == DigitsToInt(SubSeq(s, 9, 10))
         IN  IF ValidDate(y, m, d)
             THEN [ok |-> TRUE, date |-> <<y, m, d>>]
             ELSE [ok |-> FALSE, date |-> <<>>]
    ELSE [ok |-> FALSE, date |-> <<>>]

\* a < b on date objects
DateLess(a, b) ==
    \/ a[1] < b[1]
    \/ a[1] = b[1] /\ a[2] < b[2]
    \/ a[1] = b[1] /\ a[2] = b[2] /\ a[3] < b[3]

\* a >= b on date objects
DateGeq(a, b) == ~DateLess(a, b)

---------------------------------------------------------------------------
(* Filtering *)

\* filter_cancelled(events): the list comprehension of line 29
filter_cancelled(h, evs) == SelectSeq(evs, LAMBDA r : ~h[r].is_cancelled)

\* PastKeeps with the comparison event_date > cutoff
PastKeepsStrict(event, cutoff) ==
    IF ~Truthy(event.start_date) THEN TRUE
    ELSE LET parsed == fromisoformat(event.start_date[1])
         IN  IF parsed.ok THEN DateLess(cutoff, parsed.date) ELSE TRUE

\* One pass of the loop body of filter_past_events: whether event is appended.
PastKeeps(event, cutoff) ==
    IF ~Truthy(event.start_date) THEN TRUE
    ELSE LET parsed == fromisoformat(event.start_date[1])
         IN  IF parsed.ok THEN DateGeq(parsed.date, cutoff) ELSE TRUE

RECURSIVE FilterPastLoop(_, _, _, _)
FilterPastLoop(h, evs, cutoff, result) ==
    IF evs = <<>> THEN result
    ELSE FilterPastLoop(h, Tail(evs), cutoff,
            IF PastKeeps(h[Head(evs)], cutoff)
            THEN Append(result, Head(evs)) ELSE result)

\* filter_past_events(events, cutoff); cutoff None falls back to today
filter_past_events(h, evs, cutoff, today) ==
    FilterPastLoop(h, evs, IF cutoff = None THEN today ELSE cutoff, <<>>)

RECURSIVE DedupLoop(_, _, _, _)
DedupLoop(h, evs, seen, result) ==
    IF evs = <<>> THEN result
    ELSE LET event == h[Head(evs)]
         IN  IF event.event_id \notin seen
             THEN DedupLoop(h, Tail(evs), seen \cup {event.event_id},
                            Append(result, Head(evs)))
             ELSE DedupLoop(h, Tail(evs), seen, result)

\* deduplicate whose seen set is never added to, so that nothing is dropped
deduplicateNothingSeen(h, evs) == evs

\* deduplicate(events)
deduplicate(h, evs) == DedupLoop(h, evs, {}, <<>>)

---------------------------------------------------------------------------
(* Enrichment *)

\* "0.00", "0", "0.0"
ZeroPrices ==
    { Some(<<"0", ".", "0", "0">>), Some(<<"0">>), Some(<<"0", ".", "0">>) }

\* CurrencySymbol with the CAD entry missing from the table
CurrencySymbolNoCad(currency) ==
    CASE currency = <<"U", "S", "D">> -> <<"$">>
      [] currency = <<"E", "U", "R">> -> <<"U+20AC">>
      [] currency = <<"G", "B", "P">> -> <<"U+00A3">>
      [] OTHER -> currency \o <<" ">>

\* currency_symbols.get(currency, f"{currency} ")
CurrencySymbol(currency) ==
    CASE currency = <<"U", "S", "D">> -> <<"$">>
      [] currency = <<"E", "U", "R">> -> <<"U+20AC">>
      [] currency = <<"G", "B", "P">> -> <<"U+00A3">>
      [] currency = <<"C", "A", "D">> -> <<"C", "A", "$">>
      [] OTHER -> currency \o <<" ">>

\* ClearPricing whose is_free rule clears the price and leaves the currency
ClearPricingKeepsCurrency(event) ==
    IF event.price \in ZeroPrices
    THEN [event EXCEPT !.is_free = TRUE, !.price = None, !.currency = None]
    ELSE IF event.is_free
         THEN [event EXCEPT !.price = None]
         ELSE event

\* lines 89-95: the zero-price rule, else the is_free rule
ClearPricing(event) ==
    IF event.price \in ZeroPrices
    THEN [event EXCEPT !.is_free = TRUE, !.price = None, !.currency = None]
    ELSE IF event.is_free
         THEN [event EXCEPT !.price = None, !.currency = None]
         ELSE event

\* PrefixPrice without the startswith test of line 100
PrefixPriceAlways(event) ==
    IF Truthy(event.price) /\ Truthy(event.currency)
    THEN [event EXCEPT
            !.price = Some(CurrencySymbol(event.currency[1]) \o event.price[1])]
    ELSE event

\* lines 97-101: the currency prefix
PrefixPrice(event) ==
    IF Truthy(event.price) /\ Truthy(event.currency)
    THEN LET symbol == CurrencySymbol(event.currency[1])
         IN  IF ~StartsWith(event.price[1], symbol)
             THEN [event EXCEPT !.price = Some(symbol \o event.price[1])]
             ELSE event
    ELSE event

\* normalize_pricing(event): the event as the call leaves it
normalize_pricing(event) == PrefixPrice(ClearPricing(event))

\* CleanTagsLoop that keeps the lowercased tag instead of the tag
RECURSIVE CleanTagsLoopLowered(_, _, _)
CleanTagsLoopLowered(tags, seen, cleaned) ==
    IF tags = <<>> THEN cleaned
    ELSE LET tag == Head(tags)
             tag_lower == StrLower(tag)
         IN  IF tag_lower \notin seen
             THEN CleanTagsLoopLowered(Tail(tags), seen \cup {tag_lower},
                                       Append(cleaned, tag_lower))
             ELSE CleanTagsLoopLowered(Tail(tags), seen, cleaned)

\* lines 130-136: the loop of clean_tags
RECURSIVE CleanTagsLoop(_, _, _)
CleanTagsLoop(tags, seen, cleaned) ==
    IF tags = <<>> THEN cleaned
    ELSE LET tag == Head(tags)
             tag_lower == StrLower(tag)
         IN  IF tag_lower \notin seen
             THEN CleanTagsLoop(Tail(tags), seen \cup {tag_lower},
                                Append(cleaned, tag))
             ELSE CleanTagsLoop(Tail(tags), seen, cleaned)

\* clean_tags(event): the event as the call leaves it
clean_tags(event) == [event EXCEPT !.tags = CleanTagsLoop(event.tags, {}, <<>>)]

---------------------------------------------------------------------------
(* Categorization *)

KwConference ==
    << <<"c", "o", "n", "f", "e", "r", "e", "n", "c", "e">>,
       <<"s", "u", "m", "m", "i", "t">>,
       <<"s", "y", "m", "p", "o", "s", "i", "u", "m">>,
       <<"f", "o", "r", "u", "m">> >>

KwWorkshop ==
    << <<"w", "o", "r", "k", "s", "h", "o", "p">>,
       <<"h", "a", "n", "d", "s", "-", "o", "n">>,
       <<"b", "o", "o", "t", "c", "a", "m", "p">>,
       <<"t", "r", "a", "i", "n", "i", "n", "g">>,
       <<"m", "a", "s", "t", "e", "r", "c", "l", "a", "s", "s">> >>

KwMeetup ==
    << <<"m", "e", "e", "t", "u", "p">>,
       <<"m", "e", "e", "t", "-", "u", "p">>,
       <<"n", "e", "t", "w", "o", "r", "k", "i", "n", "g">>,
       <<"m", "i", "x", "e", "r">>,
       <<"h", "a", "p", "p", "y", " ", "h", "o", "u", "r">> >>

KwWebinar ==
    << <<"w", "e", "b", "i", "n", "a", "r">>,
       <<"o", "n", "l", "i", "n", "e", " ", "s", "e", "s", "s", "i", "o", "n">>,
       <<"v", "i", "r", "t", "u", "a", "l", " ", "t", "a", "l", "k">> >>

KwSeminar ==
    << <<"s", "e", "m", "i", "n", "a", "r">>,
       <<"t", "a", "l", "k">>,
       <<"l", "e", "c", "t", "u", "r", "e">>,
       <<"p", "a", "n", "e", "l">>,
       <<"f", "i", "r", "e", "s", "i", "d", "e", " ", "c", "h", "a", "t">> >>

KwHackathon ==
    << <<"h", "a", "c", "k", "a", "t", "h", "o", "n">>,
       <<"h", "a", "c", "k", " ", "d", "a", "y">>,
       <<"b", "u", "i", "l", "d", "a", "t", "h", "o", "n">> >>

KwCourse ==
    << <<"c", "o", "u", "r", "s", "e">>,
       <<"c", "l", "a", "s", "s">>,
       <<"c", "e", "r", "t", "i", "f", "i", "c", "a", "t", "i", "o", "n">>,
       <<"p", "r", "o", "g", "r", "a", "m">> >>

\* the table iterated in alphabetical order of the categories
EVENT_TYPE_KEYWORDS_Sorted ==
    << [event_type |-> "Conference", keywords |-> KwConference],
       [event_type |-> "Course", keywords |-> KwCourse],
       [event_type |-> "Hackathon", keywords |-> KwHackathon],
       [event_type |-> "Meetup", keywords |-> KwMeetup],
       [event_type |-> "Seminar", keywords |-> KwSeminar],
       [event_type |-> "Webinar", keywords |-> KwWebinar],
       [event_type |-> "Workshop", keywords |-> KwWorkshop] >>

\* _EVENT_TYPE_KEYWORDS in insertion order, which is the order .items() yields.
\* The category labels are a closed vocabulary and are kept as atoms.
EVENT_TYPE_KEYWORDS ==
    << [event_type |-> "Conference", keywords |-> KwConference],
       [event_type |-> "Workshop", keywords |-> KwWorkshop],
       [event_type |-> "Meetup", keywords |-> KwMeetup],
       [event_type |-> "Webinar", keywords |-> KwWebinar],
       [event_type |-> "Seminar", keywords |-> KwSeminar],
       [event_type |-> "Hackathon", keywords |-> KwHackathon],
       [event_type |-> "Course", keywords |-> KwCourse] >>

\* " ".join(event.tags + [event.title]).lower()
Searchable(event) == StrLower(JoinWith(<<" ">>, Append(event.tags, event.title)))

\* the inner loop of classify_event_type: some keyword of the list is found
AnyKeywordIn(keywords, searchable) ==
    \E k \in 1..Len(keywords) : Contains(searchable, keywords[k])

RECURSIVE ClassifyLoop(_, _)
ClassifyLoop(table, searchable) ==
    IF table = <<>> THEN "Event"
    ELSE IF AnyKeywordIn(Head(table).keywords, searchable)
         THEN Head(table).event_type
         ELSE ClassifyLoop(Tail(table), searchable)

\* classify_event_type(event)
classify_event_type(event) == ClassifyLoop(EVENT_TYPE_KEYWORDS, Searchable(event))

---------------------------------------------------------------------------
(* Projection: format_display_date *)

\* s[i], or a token that is no character when i is past the end
At(s, i) == IF i >= 1 /\ i <= Len(s) THEN s[i] ELSE "EOS"

NonZeroDigit(c) == IsDigit(c) /\ c # "0"

\* Length of the text the %m directive takes at position p (0: no match):
\* 1[0-2] | 0[1-9] | [1-9]
MonthFieldLen(s, p) ==
    IF \/ At(s, p) = "1" /\ At(s, p + 1) \in {"0", "1", "2"}
       \/ At(s, p) = "0" /\ NonZeroDigit(At(s, p + 1))
    THEN 2
    ELSE IF NonZeroDigit(At(s, p)) THEN 1 ELSE 0

\* %d: 3[0-1] | [1-2]\d | 0[1-9] | [1-9] | " "[1-9]
DayFieldLen(s, p) ==
    IF \/ At(s, p) = "3" /\ At(s, p + 1) \in {"0", "1"}
       \/ At(s, p) \in {"1", "2"} /\ IsDigit(At(s, p + 1))
       \/ At(s, p) = "0" /\ NonZeroDigit(At(s, p + 1))
    THEN 2
    ELSE IF NonZeroDigit(At(s, p)) THEN 1
    ELSE IF At(s, p) = " " /\ NonZeroDigit(At(s, p + 1)) THEN 2 ELSE 0

\* %H: 2[0-3] | [0-1]\d | \d
HourFieldLen(s, p) ==
    IF \/ At(s, p) = "2" /\ At(s, p + 1) \in {"0", "1", "2", "3"}
       \/ At(s, p) \in {"0", "1"} /\ IsDigit(At(s, p + 1))
    THEN 2
    ELSE IF IsDigit(At(s, p)) THEN 1 ELSE 0

\* %M: [0-5]\d | \d
MinuteFieldLen(s, p) ==
    IF At(s, p) \in {"0", "1", "2", "3", "4", "5"} /\ IsDigit(At(s, p + 1))
    THEN 2
    ELSE IF IsDigit(At(s, p)) THEN 1 ELSE 0

\* the run of whitespace \s+ takes at position p
RECURSIVE SpaceRunLen(_, _)
SpaceRunLen(s, p) == IF At(s, p) = " " THEN 1 + SpaceRunLen(s, p + 1) ELSE 0

\* int() of a field that may start with a blank
FieldVal(f) == IF Head(f) = " " THEN DigitsToInt(Tail(f)) ELSE DigitsToInt(f)

StrptimeFail == [ok |-> FALSE, y |-> 0, m |-> 0, d |-> 0, H |-> 0, M |-> 0]

\* datetime.strptime(s, "%Y-%m-%d %H:%M"); [ok |-> FALSE] stands for ValueError
strptime(s) ==
    IF ~(Len(s) >= 5 /\ AllDigits(SubSeq(s, 1, 4)) /\ s[5] = "-")
    THEN StrptimeFail
    ELSE
    LET pm == 6
        lm == MonthFieldLen(s, pm)
    IN  IF lm = 0 \/ At(s, pm + lm) # "-" THEN StrptimeFail ELSE
    LET pd == pm + lm + 1
        ld == DayFieldLen(s, pd)
    IN  IF ld = 0 THEN StrptimeFail ELSE
    LET ps == pd + ld
        ls == SpaceRunLen(s, ps)
    IN  IF ls = 0 THEN StrptimeFail ELSE
    LET pH == ps + ls
        lH == HourFieldLen(s, pH)
    IN  IF lH = 0 \/ At(s, pH + lH) # ":" THEN StrptimeFail ELSE
    LET pM == pH + lH + 1
        lM == MinuteFieldLen(s, pM)
    IN  IF lM = 0 \/ pM + lM # Len(s) + 1 THEN StrptimeFail ELSE
    LET y == DigitsToInt(SubSeq(s, 1, 4))
        m == FieldVal(SubSeq(s, pm, pm + lm - 1))
        d == FieldVal(SubSeq(s, pd, pd + ld - 1))
    IN  IF ~ValidDate(y, m, d) THEN StrptimeFail
        ELSE [ok |-> TRUE, y |-> y, m |-> m, d |-> d,
              H |-> DigitsToInt(SubSeq(s, pH, pH + lH - 1)),
              M |-> DigitsToInt(SubSeq(s, pM, pM + lM - 1))]

RECURSIVE DaysBeforeMonth(_, _)
DaysBeforeMonth(y, m) ==
    IF m = 1 THEN 0 ELSE DaysBeforeMonth(y, m - 1) + DaysInMonth(y, m - 1)

\* date.weekday(): Monday is 0
Weekday(y, m, d) ==
    LET py == y - 1
        ordinal == py * 365 + (py \div 4) - (py \div 100) + (py \div 400)
                   + DaysBeforeMonth(y, m) + d
    IN  (ordinal + 6) % 7

DayAbbr == << <<"M", "o", "n">>, <<"T", "u", "e">>, <<"W", "e", "d">>, <<"T", "h", "u">>,
             <<"F", "r", "i">>, <<"S", "a", "t">>, <<"S", "u", "n">> >>

MonthAbbr ==
    << <<"J", "a", "n">>, <<"F", "e", "b">>, <<"M", "a", "r">>, <<"A", "p", "r">>,
       <<"M", "a", "y">>, <<"J", "u", "n">>, <<"J", "u", "l">>, <<"A", "u", "g">>,
       <<"S", "e", "p">>, <<"O", "c", "t">>, <<"N", "o", "v">>, <<"D", "e", "c">> >>

TwoDigits(n) == <<Digits[(n \div 10) + 1], Digits[(n % 10) + 1]>>

FourDigits(n) == TwoDigits(n \div 100) \o TwoDigits(n % 100)

\* dt.strftime("%a, %b %d, %Y at %I:%M %p") in the C locale
strftime(dt) ==
    LET hour12 == IF dt.H % 12 = 0 THEN 12 ELSE dt.H % 12
    IN  DayAbbr[Weekday(dt.y, dt.m, dt.d) + 1] \o <<",", " ">>
        \o MonthAbbr[dt.m] \o <<" ">> \o TwoDigits(dt.d) \o <<",", " ">>
        \o FourDigits(dt.y) \o <<" ", "a", "t", " ">>
        \o TwoDigits(hour12) \o <<":">> \o TwoDigits(dt.M) \o <<" ">>
        \o (IF dt.H < 12 THEN <<"A", "M">> ELSE <<"P", "M">>)

\* lines 120-123, the body of the try: the formatted string, or raised when
\* strptime raises ValueError
TryFormat(event) ==
    LET time == IF Truthy(event.start_time) THEN event.start_time[1]
                ELSE <<"0", "0", ":", "0", "0">>
        dt == strptime(event.start_date[1] \o <<" ">> \o time)
    IN  IF dt.ok THEN [raised |-> FALSE, value |-> Some(strftime(dt))]
        ELSE [raised |-> TRUE, value |-> None]

\* format_display_date with the except clause of lines 124-125 left out
FormatOutcomeUncaught(event) ==
    IF ~Truthy(event.start_date) THEN [raised |-> FALSE, value |-> None]
    ELSE TryFormat(event)

\* lines 116-125: what a call of format_display_date ends in, a returned
\* Optional[str] or an exception that escapes it
FormatOutcome(event) ==
    IF ~Truthy(event.start_date) THEN [raised |-> FALSE, value |-> None]
    ELSE LET try == TryFormat(event)
         IN  IF try.raised
             THEN [raised |-> FALSE, value |-> event.start_date]
             ELSE try

\* format_display_date(event): the Optional[str] it returns
format_display_date(event) == FormatOutcome(event).value

---------------------------------------------------------------------------
(* Full pipeline *)

\* "Free", "See event page", "Online", "TBD"
FreeText == <<"F", "r", "e", "e">>
SeeEventPage ==
    <<"S", "e", "e", " ", "e", "v", "e", "n", "t", " ", "p", "a", "g", "e">>
OnlineText == <<"O", "n", "l", "i", "n", "e">>
TbdText == <<"T", "B", "D">>

\* the sort key's stand-in for a missing start_date: "9999-99-99"
NoDateKey == <<"9", "9", "9", "9", "-", "9", "9", "-", "9", "9">>

\* lines 200-202
display_price(event) ==
    IF event.is_free THEN FreeText
    ELSE IF Truthy(event.price) THEN event.price[1] ELSE SeeEventPage

\* lines 203-205
location(event) ==
    IF event.is_online THEN OnlineText
    ELSE IF Truthy(event.venue_name) THEN event.venue_name[1] ELSE TbdText

\* lines 197-205: the output record of an (already enriched) event
Enriched(event) ==
    LET enriched == to_dict(event)
    IN  [event_id |-> enriched.event_id, title |-> enriched.title,
         start_date |-> enriched.start_date,
         start_time |-> enriched.start_time,
         is_cancelled |-> enriched.is_cancelled,
         is_free |-> enriched.is_free, is_online |-> enriched.is_online,
         price |-> enriched.price, currency |-> enriched.currency,
         venue_name |-> enriched.venue_name, tags |-> enriched.tags,
         event_type |-> classify_event_type(event),
         display_date |-> format_display_date(event),
         display_price |-> display_price(event),
         location |-> location(event)]

\* EnrichLoop that builds the record from the Event as it was before
\* normalize_pricing and clean_tags rewrote it
RECURSIVE EnrichLoopStaleRecord(_, _, _)
EnrichLoopStaleRecord(h, evs, results) ==
    IF evs = <<>> THEN [heap |-> h, results |-> results]
    ELSE LET r == Head(evs)
             event == clean_tags(normalize_pricing(h[r]))
         IN  EnrichLoopStaleRecord([h EXCEPT ![r] = event], Tail(evs),
                                   Append(results, Enriched(h[r])))

\* lines 193-207: the loop over the filtered events; each pass rewrites the
\* Event object in place and appends its record
RECURSIVE EnrichLoop(_, _, _)
EnrichLoop(h, evs, results) ==
    IF evs = <<>> THEN [heap |-> h, results |-> results]
    ELSE LET r == Head(evs)
             event == clean_tags(normalize_pricing(h[r]))
         IN  EnrichLoop([h EXCEPT ![r] = event], Tail(evs),
                        Append(results, Enriched(event)))

\* the passes of the loop in which an exception escapes format_display_date
\* (line 198)
Raising(h, evs) ==
    { k \in DOMAIN evs :
        FormatOutcome(clean_tags(normalize_pricing(h[evs[k]]))).raised }

\* the events of the passes that are run when one raises: those up to the
\* first that raises
PassesRun(h, evs) ==
    SubSeq(evs, 1, CHOOSE k \in Raising(h, evs) :
                       \A j \in Raising(h, evs) : k <= j)

\* line 210: the key function of the sort
SortKey(rec) == IF Truthy(rec.start_date) THEN rec.start_date[1] ELSE NoDateKey

\* InsertPosFrom that puts x before the elements of equal key
RECURSIVE InsertPosFromBeforeEqual(_, _, _)
InsertPosFromBeforeEqual(sorted, x, i) ==
    IF i > Len(sorted) THEN i
    ELSE IF ~StrLess(SortKey(sorted[i]), SortKey(x)) THEN i
    ELSE InsertPosFromBeforeEqual(sorted, x, i + 1)

\* Where a stable sort puts x into an already sorted list, looking from
\* position i on: before the first element whose key is greater than x's.
RECURSIVE InsertPosFrom(_, _, _)
InsertPosFrom(sorted, x, i) ==
    IF i > Len(sorted) THEN i
    ELSE IF StrLess(SortKey(x), SortKey(sorted[i])) THEN i
    ELSE InsertPosFrom(sorted, x, i + 1)

InsertPos(sorted, x) == InsertPosFrom(sorted, x, 1)

RECURSIVE SortLoop(_, _)
SortLoop(list, sorted) ==
    IF list = <<>> THEN sorted
    ELSE LET x == Head(list)
             p == InsertPos(sorted, x)
         IN  SortLoop(Tail(list),
                      SubSeq(sorted, 1, p - 1) \o <<x>>
                      \o SubSeq(sorted, p, Len(sorted)))

\* results.sort(key=...): list.sort is stable
SortResults(results) == SortLoop(results, <<>>)

\* transform_events that removes duplicates before it filters
transform_eventsDedupFirst(h, evs, cutoff, today) ==
    LET filtered == filter_past_events(h, filter_cancelled(h, deduplicate(h, evs)),
                                       cutoff, today)
        enriched == EnrichLoop(h, filtered, <<>>)
    IN  IF Raising(h, filtered) # {}
        THEN [heap |-> EnrichLoop(h, PassesRun(h, filtered), <<>>).heap,
              results |-> <<>>, raised |-> TRUE]
        ELSE [heap |-> enriched.heap, results |-> SortResults(enriched.results),
              raised |-> FALSE]

\* transform_events that enriches every event of the list before it filters
transform_eventsEnrichAll(h, evs, cutoff, today) ==
    LET filtered == deduplicate(h,
                        filter_past_events(h, filter_cancelled(h, evs),
                                           cutoff, today))
        enriched == EnrichLoop(h, filtered, <<>>)
    IN  [heap |-> EnrichLoop(h, evs, <<>>).heap,
         results |-> SortResults(enriched.results), raised |-> FALSE]

\* transform_events(events, cutoff): the heap it leaves and the list it returns
transform_events(h, evs, cutoff, today) ==
    LET filtered == deduplicate(h,
                        filter_past_events(h, filter_cancelled(h, evs),
                                           cutoff, today))
        enriched == EnrichLoop(h, filtered, <<>>)
    IN  IF Raising(h, filtered) # {}
        THEN [heap |-> EnrichLoop(h, PassesRun(h, filtered), <<>>).heap,
              results |-> <<>>, raised |-> TRUE]
        ELSE [heap |-> enriched.heap, results |-> SortResults(enriched.results),
              raised |-> FALSE]

---------------------------------------------------------------------------
(* Inputs *)

\* the title of the event at position i of the input list: "E1", "E2", ...
\* Distinct titles let an output record name the Event it was built from.
PosTitle(i) == <<"E", Digits[i + 1]>>

\* the event_id "a", "b", ... of position i, where ids are all distinct
PosId(i) == <<Lower[i]>>

\* cutoff arguments: None (today is used) or date(2025, 1, 1)
CutoffArgs == { None, <<2025, 1, 1>> }

\* what date.today() may return
Todays == { <<2030, 1, 1>> }

D2020 == Some(<<"2", "0", "2", "0", "-", "0", "1", "-", "0", "1">>)
D2025 == Some(<<"2", "0", "2", "5", "-", "0", "1", "-", "0", "1">>)
D2030 == Some(<<"2", "0", "3", "0", "-", "0", "1", "-", "0", "1">>)

\* an event that differs from the defaults in id, title, date and cancellation
PlainEvent(id, title, sdate, canc) ==
    Event(id, title, sdate, None, canc, FALSE, FALSE, None, None, None, <<>>)

\* Shapes of the pipeline inputs: two ids (one of them the empty string),
\* cancelled or not, dated before or after the cutoff or undated.
PipelineShapes ==
    { [id |-> id, sdate |-> d, canc |-> FALSE] :
        id \in { <<>>, <<"a">> }, d \in { None, D2020, D2030 } }
    \cup { [id |-> id, sdate |-> D2030, canc |-> TRUE] : id \in { <<>>, <<"a">> } }

\* the pipeline input of shape s at position i
PipelineEventAt(s, i) == PlainEvent(s.id, PosTitle(i), s.sdate, s.canc)

\* Shapes of the inputs that every stage has work to do on: an active event
\* "a" priced "25.00" in USD, an active undated event "b" priced "0.00", a past
\* event "a" priced "CA$5" in CAD, and a cancelled free event "b" that still
\* has a price.
FrameShapes ==
    { [id |-> <<"a">>, sdate |-> D2030, canc |-> FALSE, free |-> FALSE,
       price |-> Some(<<"2", "5", ".", "0", "0">>),
       cur |-> Some(<<"U", "S", "D">>)],
      [id |-> <<"b">>, sdate |-> None, canc |-> FALSE, free |-> FALSE,
       price |-> Some(<<"0", ".", "0", "0">>),
       cur |-> Some(<<"U", "S", "D">>)],
      [id |-> <<"a">>, sdate |-> D2020, canc |-> FALSE, free |-> FALSE,
       price |-> Some(<<"C", "A", "$", "5">>),
       cur |-> Some(<<"C", "A", "D">>)],
      [id |-> <<"b">>, sdate |-> D2030, canc |-> TRUE, free |-> TRUE,
       price |-> Some(<<"1", "0">>),
       cur |-> Some(<<"E", "U", "R">>)] }

\* the event of shape s at position i, with the tags "AI", "ai"
FrameEventAt(s, i) ==
    Event(s.id, PosTitle(i), s.sdate, None, s.canc, s.free, FALSE, s.price,
          s.cur, None, << <<"A", "I">>, <<"a", "i">> >>)

\* start_date values that are no date: "", "TBA", "2024-02-30", "2025-1-1"
BadDates ==
    { Some(<<>>),
      Some(<<"T", "B", "A">>),
      Some(<<"2", "0", "2", "4", "-", "0", "2", "-", "3", "0">>),
      Some(<<"2", "0", "2", "5", "-", "1", "-", "1">>) }

\* Shapes of the date inputs: every kind of start_date.
DateShapes == { None, D2020, D2025, D2030 } \cup BadDates

\* the date input with start_date d at position i; ids are all distinct
DateEventAt(d, i) == PlainEvent(PosId(i), PosTitle(i), d, FALSE)

\* start_time values: None, "", "12:00", "9:5", "25:00", "noon"
TimeInputs ==
    { None,
      Some(<<>>),
      Some(<<"1", "2", ":", "0", "0">>),
      Some(<<"9", ":", "5">>),
      Some(<<"2", "5", ":", "0", "0">>),
      Some(<<"n", "o", "o", "n">>) }

\* Shapes of the display inputs <<start_date, start_time>>: every kind of
\* start_date without a start_time, and every start_time with the start_date
\* "2030-01-01" and with none.
DisplayShapes ==
    { <<d, None>> : d \in DateShapes } \cup
    { <<d, t>> : d \in {None, D2030}, t \in TimeInputs }

\* the event at position i of a display input
DisplayEventAt(s, i) ==
    Event(PosId(i), PosTitle(i), s[1], s[2], FALSE, FALSE, FALSE, None, None,
          None, <<>>)

\* price values: None, "", "0", "0.0", "0.00", "0.000", "25.00", "$25.00", "CA$5",
\* "JPY 100.00"
PriceInputs ==
    { None,
      Some(<<>>),
      Some(<<"0">>),
      Some(<<"0", ".", "0">>),
      Some(<<"0", ".", "0", "0">>),
      Some(<<"0", ".", "0", "0", "0">>),
      Some(<<"2", "5", ".", "0", "0">>),
      Some(<<"$", "2", "5", ".", "0", "0">>),
      Some(<<"C", "A", "$", "5">>),
      Some(<<"J", "P", "Y", " ", "1", "0", "0", ".", "0", "0">>) }

\* currency values: None, "", "USD", "EUR", "GBP", "CAD", "JPY"
CurrencyInputs ==
    { None,
      Some(<<>>),
      Some(<<"U", "S", "D">>),
      Some(<<"E", "U", "R">>),
      Some(<<"G", "B", "P">>),
      Some(<<"C", "A", "D">>),
      Some(<<"J", "P", "Y">>) }

\* Events of the pricing inputs: every combination of is_free, price, currency.
PricingEvents ==
    { Event(<<"a">>, PosTitle(1), D2030, None, FALSE, free, FALSE, price, cur,
            None, <<>>) :
        free \in BOOLEAN, price \in PriceInputs, cur \in CurrencyInputs }

\* tags: "AI", "ai", "Ai", "happy", "hour", "Summit"
TagInputs ==
    { <<"A", "I">>,
      <<"a", "i">>,
      <<"A", "i">>,
      <<"h", "a", "p", "p", "y">>,
      <<"h", "o", "u", "r">>,
      <<"S", "u", "m", "m", "i", "t">> }

\* titles: "Something About AI", "AI Summit 2026", "Hands-On AI Workshop", "AI Mixer",
\* "Webinar Talk", "talkative", "Hack Day", "Program", "Workshop Forum"
TitleInputs ==
    { <<"S", "o", "m", "e", "t", "h", "i", "n", "g", " ", "A", "b", "o", "u", "t", " ", "A", "I">>,
      <<"A", "I", " ", "S", "u", "m", "m", "i", "t", " ", "2", "0", "2", "6">>,
      <<"H", "a", "n", "d", "s", "-", "O", "n", " ", "A", "I", " ", "W", "o", "r", "k", "s", "h", "o", "p">>,
      <<"A", "I", " ", "M", "i", "x", "e", "r">>,
      <<"W", "e", "b", "i", "n", "a", "r", " ", "T", "a", "l", "k">>,
      <<"t", "a", "l", "k", "a", "t", "i", "v", "e">>,
      <<"H", "a", "c", "k", " ", "D", "a", "y">>,
      <<"P", "r", "o", "g", "r", "a", "m">>,
      <<"W", "o", "r", "k", "s", "h", "o", "p", " ", "F", "o", "r", "u", "m">> }

\* all lists of at most n elements of S
ListsUpTo(S, n) == UNION { [1..k -> S] : k \in 0..n }

TextEvent(title, tags) ==
    Event(<<"a">>, title, D2030, None, FALSE, FALSE, FALSE, None, None, None,
          tags)

\* Events of the text inputs: every title with at most one tag, and every list
\* of tags with a title that holds no keyword and one that holds one.
TextEvents ==
    { TextEvent(title, tags) :
        title \in TitleInputs, tags \in ListsUpTo(TagInputs, 1) }
    \cup
    { TextEvent(title, tags) :
        title \in { <<"A", "I">>, <<"t", "a", "l", "k", "a", "t", "i", "v", "e">> },
        tags \in ListsUpTo(TagInputs, MaxTags) }

---------------------------------------------------------------------------
(* State machine: a caller holding a list of Event objects calls the        *)
(* functions of transform.py on them, in any order.                        *)

NoCall ==
    [fn |-> "none", ref |-> 0, cutoff |-> None, today |-> None, heap |-> <<>>]

\* Nothing returned yet.  A list of Events is returned in events, an Event in
\* event, a category in event_type, an Optional[str] in display_date and a
\* list of output records in results; raised says that the call ended in an
\* exception instead of returning.
NoRet ==
    [events |-> <<>>, event |-> 0, event_type |-> "", display_date |-> None,
     results |-> <<>>, raised |-> FALSE]

\* the record of a call of fn entered with the Event objects as they are now
Entered(fn) == [NoCall EXCEPT !.fn = fn, !.heap = heap]

\* the state after the Event objects objs were constructed and put in a list
InitOf(objs) ==
    /\ heap = objs
    /\ events = [i \in DOMAIN objs |-> i]
    /\ call = NoCall
    /\ ret = NoRet

\* one Event with any pricing
Init == \E event \in PricingEvents : InitOf(<<event>>)
\* one Event with any tags and title
InitText == \E event \in TextEvents : InitOf(<<event>>)
\* a list of events with duplicate ids, cancelled and past events
InitPipeline ==
    \E n \in 0..MaxEvents : \E shape \in [1..n -> PipelineShapes] :
        InitOf([i \in 1..n |-> PipelineEventAt(shape[i], i)])
\* a list of events with every kind of start_date
\* a list of events with every kind of start_date and start_time
InitDisplay ==
    \E n \in 0..MaxDisplayEvents : \E shape \in [1..n -> DisplayShapes] :
        InitOf([i \in 1..n |-> DisplayEventAt(shape[i], i)])
\* a list of events that every stage has work to do on
InitFrame ==
    \E n \in 0..MaxFrameEvents : \E shape \in [1..n -> FrameShapes] :
        InitOf([i \in 1..n |-> FrameEventAt(shape[i], i)])
\* a list of events with every kind of start_date
InitDates ==
    \E n \in 0..MaxEvents : \E shape \in [1..n -> DateShapes] :
        InitOf([i \in 1..n |-> DateEventAt(shape[i], i)])

CallFilterCancelled ==
    /\ call' = Entered("filter_cancelled")
    /\ ret' = [NoRet EXCEPT !.events = filter_cancelled(heap, events)]
    /\ UNCHANGED <<heap, events>>

CallFilterPastEvents ==
    \E cutoff \in CutoffArgs, today \in Todays :
        /\ call' = [Entered("filter_past_events") EXCEPT
                      !.cutoff = cutoff, !.today = today]
        /\ ret' = [NoRet EXCEPT
                     !.events = filter_past_events(heap, events, cutoff, today)]
        /\ UNCHANGED <<heap, events>>

CallDeduplicate ==
    /\ call' = Entered("deduplicate")
    /\ ret' = [NoRet EXCEPT !.events = deduplicate(heap, events)]
    /\ UNCHANGED <<heap, events>>

CallNormalizePricing ==
    \E r \in DOMAIN heap :
        /\ call' = [Entered("normalize_pricing") EXCEPT !.ref = r]
        /\ heap' = [heap EXCEPT ![r] = normalize_pricing(heap[r])]
        /\ ret' = [NoRet EXCEPT !.event = r]
        /\ UNCHANGED events

CallCleanTags ==
    \E r \in DOMAIN heap :
        /\ call' = [Entered("clean_tags") EXCEPT !.ref = r]
        /\ heap' = [heap EXCEPT ![r] = clean_tags(heap[r])]
        /\ ret' = [NoRet EXCEPT !.event = r]
        /\ UNCHANGED events

CallClassifyEventType ==
    \E r \in DOMAIN heap :
        /\ call' = [Entered("classify_event_type") EXCEPT !.ref = r]
        /\ ret' = [NoRet EXCEPT !.event_type = classify_event_type(heap[r])]
        /\ UNCHANGED <<heap, events>>

CallFormatDisplayDate ==
    \E r \in DOMAIN heap :
        /\ call' = [Entered("format_display_date") EXCEPT !.ref = r]
        /\ \E out \in {FormatOutcome(heap[r])} :
               ret' = [NoRet EXCEPT
                         !.display_date = out.value, !.raised = out.raised]
        /\ UNCHANGED <<heap, events>>

CallTransformEvents ==
    \E cutoff \in CutoffArgs, today \in Todays :
        \E out \in {transform_events(heap, events, cutoff, today)} :
            /\ call' = [Entered("transform_events") EXCEPT
                          !.cutoff = cutoff, !.today = today]
            /\ heap' = out.heap
            /\ ret' = [NoRet EXCEPT
                         !.results = out.results, !.raised = out.raised]
            /\ UNCHANGED events

\* the functions that take the list
NextLists ==
    \/ CallFilterCancelled
    \/ CallFilterPastEvents
    \/ CallDeduplicate
    \/ CallTransformEvents

\* the functions that take one Event
NextEvent ==
    \/ CallNormalizePricing
    \/ CallCleanTags
    \/ CallClassifyEventType
    \/ CallFormatDisplayDate

\* the function that formats the date and the pipeline that calls it
NextDisplay == CallFormatDisplayDate \/ CallTransformEvents

\* the stages of the pipeline, and the pipeline
NextStages == NextLists \/ CallNormalizePricing \/ CallCleanTags

Next == NextLists \/ NextEvent

Spec == Init /\ [][Next]_vars
SpecText == InitText /\ [][NextEvent]_vars
SpecPipeline == InitPipeline /\ [][NextLists]_vars
SpecDates == InitDates /\ [][NextLists]_vars
SpecDisplay == InitDisplay /\ [][NextDisplay]_vars
SpecFrame == InitFrame /\ [][NextStages]_vars

---------------------------------------------------------------------------
(* Notions the claims are stated in *)

\* the list the last call returned: of Event references, of output records
Kept == ret.events
Results == ret.results

\* the cutoff the last call compared against
EffectiveCutoff == IF call.cutoff = None THEN call.today ELSE call.cutoff

\* the Event at position i of the list, as it was when the last call was entered
Given(i) == call.heap[events[i]]

Positions == 1..Len(events)

\* the event's start_date parses to a date before the cutoff
IsPast(event, cutoff) ==
    /\ event.start_date # None
    /\ fromisoformat(event.start_date[1]).ok
    /\ DateLess(fromisoformat(event.start_date[1]).date, cutoff)

\* the occurrence at position i is neither cancelled nor past
Active(i) == ~Given(i).is_cancelled /\ ~IsPast(Given(i), EffectiveCutoff)

\* the first position at which Q holds, given that there is one
FirstWhere(Q(_)) ==
    CHOOSE i \in Positions : Q(i) /\ \A j \in 1..(i - 1) : ~Q(j)

---------------------------------------------------------------------------
(* C1: transform_events returns exactly one record for each event_id that   *)
(* has an occurrence neither cancelled nor past, built from the first such  *)
(* occurrence in input order, and no record for any other id.              *)

C1_FilterOrder ==
    call.fn = "transform_events" =>
        /\ \A i \in Positions :
             Active(i) =>
               Cardinality({ k \in DOMAIN Results :
                               Results[k].event_id = Given(i).event_id }) = 1
        /\ \A k \in DOMAIN Results :
             LET SameId(i) == Active(i) /\ Given(i).event_id = Results[k].event_id
             IN  /\ \E i \in Positions : SameId(i)
                 /\ Results[k].title = Given(FirstWhere(SameId)).title
                 /\ Results[k].start_date = Given(FirstWhere(SameId)).start_date

\* A cancelled and a past occurrence of an id come before an active one, and
\* the record of that id is built from the active one.
C1_Witness ==
    /\ call.fn = "transform_events"
    /\ \E i, j, l \in Positions :
         /\ i < l /\ j < l
         /\ Given(i).is_cancelled
         /\ ~Given(j).is_cancelled /\ IsPast(Given(j), EffectiveCutoff)
         /\ Active(l)
         /\ Given(i).event_id = Given(l).event_id
         /\ Given(j).event_id = Given(l).event_id
         /\ Results = <<Enriched(Given(l))>>

---------------------------------------------------------------------------
(* C2: deduplicate returns a list no longer than its input in which every   *)
(* event_id of the input (the empty id included) has exactly one record,    *)
(* its first occurrence, and the survivors keep their input order.          *)

C2_Deduplicate ==
    call.fn = "deduplicate" =>
        /\ Len(Kept) <= Len(events)
        /\ \A i \in Positions :
             Cardinality({ k \in DOMAIN Kept :
                             heap[Kept[k]].event_id = Given(i).event_id }) = 1
        /\ \A k \in DOMAIN Kept :
             LET SameId(i) == Given(i).event_id = heap[Kept[k]].event_id
             IN  /\ \E i \in Positions : SameId(i)
                 /\ Kept[k] = events[FirstWhere(SameId)]
        /\ \A k1, k2 \in DOMAIN Kept :
             k1 < k2 =>
               \E i1, i2 \in Positions :
                 i1 < i2 /\ events[i1] = Kept[k1] /\ events[i2] = Kept[k2]

\* Two ids survive out of three events, one of them the empty id, and the
\* dropped duplicate differs from the survivor in its start_date.
C2_Witness ==
    /\ call.fn = "deduplicate"
    /\ Len(events) = 3 /\ Len(Kept) = 2
    /\ \E k \in DOMAIN Kept : heap[Kept[k]].event_id = <<>>
    /\ \E i \in Positions, k \in DOMAIN Kept :
         /\ \A k2 \in DOMAIN Kept : Kept[k2] # events[i]
         /\ heap[Kept[k]].event_id = Given(i).event_id
         /\ heap[Kept[k]].start_date # Given(i).start_date

---------------------------------------------------------------------------
(* C3: with an explicit cutoff, filter_past_events returns, in input order, *)
(* exactly the events whose start_date is absent, or does not parse as a    *)
(* date, or parses to a date on or after the cutoff.                        *)

\* start_date is absent, unparseable, or a date >= cutoff
NotBefore(event, cutoff) ==
    \/ event.start_date = None
    \/ ~fromisoformat(event.start_date[1]).ok
    \/ ~DateLess(fromisoformat(event.start_date[1]).date, cutoff)

C3_FilterPast ==
    (call.fn = "filter_past_events" /\ call.cutoff # None) =>
        Kept = SelectSeq(events,
                         LAMBDA r : NotBefore(call.heap[r], call.cutoff))

\* An event dated on the cutoff and one with an unparseable date are kept, and
\* one dated before the cutoff is removed.
C3_Witness ==
    /\ call.fn = "filter_past_events" /\ call.cutoff # None
    /\ Len(events) = 3 /\ Len(Kept) = 2
    /\ \E k \in DOMAIN Kept :
         /\ heap[Kept[k]].start_date # None
         /\ fromisoformat(heap[Kept[k]].start_date[1]).ok
         /\ fromisoformat(heap[Kept[k]].start_date[1]).date = call.cutoff
    /\ \E k \in DOMAIN Kept :
         /\ Truthy(heap[Kept[k]].start_date)
         /\ ~fromisoformat(heap[Kept[k]].start_date[1]).ok

---------------------------------------------------------------------------
(* Pricing claims: the Event a call of normalize_pricing was given and the   *)
(* Event it left                                                            *)

PricingIn == call.heap[call.ref]
PricingOut == heap[call.ref]

\* (1) is_free is true and both price and currency are absent
FreeAndCleared(event) ==
    event.is_free /\ event.price = None /\ event.currency = None

\* the marker of a currency: the symbol of the fixed table, or "<CODE> "
Marker(currency) ==
    IF currency = <<"U", "S", "D">> THEN <<"$">>
    ELSE IF currency = <<"E", "U", "R">> THEN <<"U+20AC">>
    ELSE IF currency = <<"G", "B", "P">> THEN <<"U+00A3">>
    ELSE IF currency = <<"C", "A", "D">> THEN <<"C", "A", "$">>
    ELSE currency \o <<" ">>

\* (2) price is present and, when currency is known, begins with its marker
PricedWithMarker(event) ==
    /\ Truthy(event.price)
    /\ Truthy(event.currency) =>
         StartsWith(event.price[1], Marker(event.currency[1]))

ExactlyOneForm(event) == FreeAndCleared(event) # PricedWithMarker(event)

(* C4, as claimed: after normalize_pricing every event satisfies exactly    *)
(* one of (1) and (2), whatever is_free, price and currency were.           *)
C4_Original ==
    call.fn = "normalize_pricing" => ExactlyOneForm(PricingOut)

(* C4, amended: after normalize_pricing an event that was free or had a     *)
(* price satisfies exactly one of (1) and (2); an event that was not free   *)
(* and had no price satisfies neither.                                      *)
C4_Amended ==
    call.fn = "normalize_pricing" =>
        IF ~PricingIn.is_free /\ ~Truthy(PricingIn.price)
        THEN ~FreeAndCleared(PricingOut) /\ ~PricedWithMarker(PricingOut)
        ELSE ExactlyOneForm(PricingOut)

\* An event that is not free and has a currency but no price is left in
\* neither form.
C4_Witness ==
    /\ call.fn = "normalize_pricing"
    /\ ~PricingIn.is_free /\ PricingIn.price = None
    /\ Truthy(PricingIn.currency)
    /\ ~FreeAndCleared(PricingOut) /\ ~PricedWithMarker(PricingOut)

\* what rules (a) and (b) and the last case of the claim make of an event that
\* rule (c) does not apply to
ByRulesAB(event) ==
    IF event.price \in ZeroPrices
    THEN [event EXCEPT !.is_free = TRUE, !.price = None, !.currency = None]
    ELSE IF event.is_free
    THEN [event EXCEPT !.price = None, !.currency = None]
    ELSE event

\* rule (c) applies: no zero price, not free, price and currency present
RuleCApplies(event) ==
    /\ event.price \notin ZeroPrices
    /\ ~event.is_free
    /\ Truthy(event.price) /\ Truthy(event.currency)

Prefixed(event) ==
    [event EXCEPT !.price = Some(Marker(event.currency[1]) \o event.price[1])]

(* C5, as claimed: normalize_pricing applies (a) the zero-price rule, else  *)
(* (b) the is_free rule, else (c) prefixes a present price with the marker  *)
(* of a present currency and leaves is_free false; else changes nothing.    *)
C5_Original ==
    call.fn = "normalize_pricing" =>
        PricingOut = IF RuleCApplies(PricingIn) THEN Prefixed(PricingIn)
                     ELSE ByRulesAB(PricingIn)

(* C5, amended: as claimed, except that under (c) a price that already      *)
(* starts with the marker of its currency is left unchanged.                *)
C5_Amended ==
    call.fn = "normalize_pricing" =>
        PricingOut =
            IF RuleCApplies(PricingIn)
            THEN IF StartsWith(PricingIn.price[1], Marker(PricingIn.currency[1]))
                 THEN PricingIn ELSE Prefixed(PricingIn)
            ELSE ByRulesAB(PricingIn)

\* The price "CA$5" in CAD already starts with its marker and is left alone.
C5_Witness ==
    /\ call.fn = "normalize_pricing"
    /\ RuleCApplies(PricingIn)
    /\ PricingIn.currency = Some(<<"C", "A", "D">>)
    /\ PricingIn.price = Some(<<"C", "A", "$", "5">>)
    /\ PricingOut = PricingIn

(* C6: normalize_pricing is idempotent: a second call on the same Event     *)
(* right after a first leaves is_free, price and currency as they were.     *)
C6_Idempotent ==
    [][(/\ call.fn = "normalize_pricing"
        /\ call'.fn = "normalize_pricing"
        /\ call'.ref = call.ref)
       => heap'[call'.ref] = heap[call.ref]]_vars

\* A call entered with the price "$CA$5" in USD, which only an earlier call
\* can have produced (from "CA$5"), has left it as it was.
C6_Witness ==
    /\ call.fn = "normalize_pricing"
    /\ PricingIn.currency = Some(<<"U", "S", "D">>)
    /\ PricingIn.price = Some(<<"$", "C", "A", "$", "5">>)
    /\ PricingOut = PricingIn

---------------------------------------------------------------------------
(* C7: after clean_tags no two tags are equal ignoring case, every          *)
(* case-insensitively distinct tag of the original list has exactly one     *)
(* entry, with the casing of its first occurrence, and the entries are in   *)
(* the order of their first occurrences.                                    *)

EqIgnoringCase(a, b) == StrLower(a) = StrLower(b)

TagsIn == call.heap[call.ref].tags
TagsOut == heap[call.ref].tags

\* the position of the first tag of the original list equal to t ignoring case
FirstTagLike(t) ==
    CHOOSE i \in DOMAIN TagsIn :
        /\ EqIgnoringCase(TagsIn[i], t)
        /\ \A j \in 1..(i - 1) : ~EqIgnoringCase(TagsIn[j], t)

C7_CleanTags ==
    call.fn = "clean_tags" =>
        /\ \A k1, k2 \in DOMAIN TagsOut :
             k1 # k2 => ~EqIgnoringCase(TagsOut[k1], TagsOut[k2])
        /\ \A i \in DOMAIN TagsIn :
             Cardinality({ k \in DOMAIN TagsOut :
                             EqIgnoringCase(TagsOut[k], TagsIn[i]) }) = 1
        /\ \A k \in DOMAIN TagsOut :
             /\ \E i \in DOMAIN TagsIn : EqIgnoringCase(TagsIn[i], TagsOut[k])
             /\ TagsOut[k] = TagsIn[FirstTagLike(TagsOut[k])]
        /\ \A k1, k2 \in DOMAIN TagsOut :
             k1 < k2 => FirstTagLike(TagsOut[k1]) < FirstTagLike(TagsOut[k2])

\* Of three tags the third repeats the first in another casing and is dropped.
C7_Witness ==
    /\ call.fn = "clean_tags"
    /\ Len(TagsIn) = 3
    /\ TagsIn[1] # TagsIn[3] /\ EqIgnoringCase(TagsIn[1], TagsIn[3])
    /\ ~EqIgnoringCase(TagsIn[1], TagsIn[2])
    /\ TagsOut = <<TagsIn[1], TagsIn[2]>>

---------------------------------------------------------------------------
(* C8: classify_event_type returns the first category, in the order         *)
(* Conference, Workshop, Meetup, Webinar, Seminar, Hackathon, Course, with  *)
(* a keyword that is a substring of the lowercased tags-then-title string,  *)
(* and "Event" exactly when no keyword of any category occurs.              *)

Priority ==
    << "Conference", "Workshop", "Meetup", "Webinar", "Seminar", "Hackathon",
       "Course" >>

\* the keywords of a category
KeywordsOf(category) ==
    CASE category = "Conference" -> KwConference
      [] category = "Workshop" -> KwWorkshop
      [] category = "Meetup" -> KwMeetup
      [] category = "Webinar" -> KwWebinar
      [] category = "Seminar" -> KwSeminar
      [] category = "Hackathon" -> KwHackathon
      [] category = "Course" -> KwCourse

\* the search string of the Event the last call was given
SearchString ==
    LET event == call.heap[call.ref]
        parts == event.tags \o <<event.title>>
    IN  StrLower(JoinWith(<<" ">>, parts))

\* some keyword of the category of priority p occurs in the search string
Occurs(p) ==
    \E k \in DOMAIN KeywordsOf(Priority[p]) :
        Contains(SearchString, KeywordsOf(Priority[p])[k])

C8_Classify ==
    call.fn = "classify_event_type" =>
        /\ ret.event_type = "Event" <=> \A p \in DOMAIN Priority : ~Occurs(p)
        /\ ret.event_type # "Event" =>
             \E p \in DOMAIN Priority :
                 /\ ret.event_type = Priority[p]
                 /\ Occurs(p)
                 /\ \A q \in 1..(p - 1) : ~Occurs(q)

\* Keywords of Webinar and of Seminar both occur, and Webinar is returned.
C8_Witness ==
    /\ call.fn = "classify_event_type"
    /\ Occurs(4) /\ Occurs(5)
    /\ ret.event_type = "Webinar"

---------------------------------------------------------------------------
(* Sort claims: the list of records a call of transform_events returned     *)

HasStartDate(rec) == Truthy(rec.start_date)

\* a <= b on two start_date strings: as dates where both parse, else as text
StartDateLeq(a, b) ==
    IF fromisoformat(a).ok /\ fromisoformat(b).ok
    THEN ~DateLess(fromisoformat(b).date, fromisoformat(a).date)
    ELSE StrLeq(a, b)

(* C9, as claimed: in every list transform_events returns, of two adjacent  *)
(* records that both have a start_date the first's is <= the second's, and  *)
(* every record without a start_date comes after all records that have     *)
(* one, unparseable start_dates included.                                   *)
C9_SortedDatelessLast ==
    call.fn = "transform_events" =>
        /\ \A k \in 1..(Len(Results) - 1) :
             (HasStartDate(Results[k]) /\ HasStartDate(Results[k + 1])) =>
                 StartDateLeq(Results[k].start_date[1],
                              Results[k + 1].start_date[1])
        /\ \A k1, k2 \in DOMAIN Results :
             (~HasStartDate(Results[k1]) /\ HasStartDate(Results[k2])) =>
                 k2 < k1

\* the position in the input list of the event a record was built from
SourcePos(rec) == CHOOSE i \in Positions : Given(i).title = rec.title

\* equal sort keys: the same start_date, or both without a start_date
EqualKeys(r1, r2) ==
    \/ HasStartDate(r1) /\ HasStartDate(r2) /\ r1.start_date = r2.start_date
    \/ ~HasStartDate(r1) /\ ~HasStartDate(r2)

(* C10: the final sort of transform_events is stable: two records with      *)
(* equal sort keys are in the relative order their source events had in     *)
(* the input list.                                                          *)
C10_StableSort ==
    call.fn = "transform_events" =>
        \A k1, k2 \in DOMAIN Results :
            (k1 < k2 /\ EqualKeys(Results[k1], Results[k2])) =>
                SourcePos(Results[k1]) < SourcePos(Results[k2])

\* The first and third events have the same start_date and the second an
\* earlier one: the second is moved to the front and the other two keep
\* their order.
C10_Witness ==
    /\ call.fn = "transform_events"
    /\ Len(events) = 3 /\ Len(Results) = 3
    /\ SourcePos(Results[1]) = 2
    /\ SourcePos(Results[2]) = 1
    /\ SourcePos(Results[3]) = 3
    /\ HasStartDate(Results[2])
    /\ EqualKeys(Results[2], Results[3])
    /\ ~EqualKeys(Results[1], Results[2])

---------------------------------------------------------------------------
(* C11: in every record transform_events returns, display_price is "Free"  *)
(* if the normalized event is free, else its normalized price if there is   *)
(* one, else "See event page"; display_price is "Free" exactly when the     *)
(* record's is_free is true, and then the record's price and currency are   *)
(* absent, also for an event given with is_free false and a zero price.     *)

\* the Event a record was built from, as transform_events left it
NormalizedOf(rec) == heap[events[SourcePos(rec)]]

C11_DisplayPrice ==
    call.fn = "transform_events" =>
        \A k \in DOMAIN Results :
            LET rec == Results[k]
                event == NormalizedOf(rec)
                given == Given(SourcePos(rec))
            IN  /\ rec.is_free = event.is_free
                /\ rec.price = event.price
                /\ rec.currency = event.currency
                /\ event.is_free => rec.display_price = <<"F", "r", "e", "e">>
                /\ (~event.is_free /\ Truthy(event.price)) =>
                       rec.display_price = event.price[1]
                /\ (~event.is_free /\ ~Truthy(event.price)) =>
                       rec.display_price = SeeEventPage
                /\ rec.display_price = <<"F", "r", "e", "e">> <=> rec.is_free
                /\ rec.is_free => (rec.price = None /\ rec.currency = None)
                /\ given.price \in { Some(<<"0", ".", "0", "0">>),
                                     Some(<<"0">>), Some(<<"0", ".", "0">>) } =>
                       rec.display_price = <<"F", "r", "e", "e">>

\* An event given as not free, priced "0.00" in some currency, has the record
\* of a free event.
C11_Witness ==
    /\ call.fn = "transform_events"
    /\ Len(Results) = 1
    /\ ~Given(1).is_free
    /\ Given(1).price = Some(<<"0", ".", "0", "0">>)
    /\ Truthy(Given(1).currency)
    /\ Results[1].display_price = <<"F", "r", "e", "e">>
    /\ Results[1].is_free
    /\ Results[1].price = None /\ Results[1].currency = None

---------------------------------------------------------------------------
(* C12: format_display_date never fails: it returns None exactly when       *)
(* start_date is absent; when start_date is present and start_date with     *)
(* start_time ("00:00" for an absent start_time) does not parse, it returns *)
(* start_date unchanged; otherwise it returns the formatted string.  No     *)
(* event with an unparseable date or time aborts transform_events.          *)

\* the text that is parsed: start_date, a blank, start_time or "00:00"
DateTimeText(event) ==
    event.start_date[1] \o <<" ">> \o
        (IF Truthy(event.start_time) THEN event.start_time[1]
         ELSE <<"0", "0", ":", "0", "0">>)

\* what the claim has format_display_date return for an event
DisplayDateOf(event) ==
    IF ~Truthy(event.start_date) THEN None
    ELSE IF ~strptime(DateTimeText(event)).ok THEN event.start_date
    ELSE Some(strftime(strptime(DateTimeText(event))))

C12_DisplayDate ==
    /\ call.fn = "format_display_date" =>
         /\ ~ret.raised
         /\ ret.display_date = None <=> ~Truthy(call.heap[call.ref].start_date)
         /\ ret.display_date = DisplayDateOf(call.heap[call.ref])
    /\ call.fn = "transform_events" =>
         /\ ~ret.raised
         /\ \A i \in Positions :
              ~IsPast(Given(i), EffectiveCutoff) =>
                  \E k \in DOMAIN Results :
                      /\ Results[k].title = Given(i).title
                      /\ Results[k].display_date = DisplayDateOf(Given(i))

\* An event dated "2030-01-01" with the start_time "25:00" gets its raw
\* start_date for display_date.
C12_Witness ==
    /\ call.fn = "format_display_date"
    /\ call.heap[call.ref].start_date = D2030
    /\ call.heap[call.ref].start_time = Some(<<"2", "5", ":", "0", "0">>)
    /\ ~ret.raised
    /\ ret.display_date = D2030

---------------------------------------------------------------------------
(* C13: no stage rewrites an event_id, and each stage changes only what it  *)
(* owns: filter_cancelled, filter_past_events and deduplicate change no      *)
(* field of any event and leave the input list as it is; normalize_pricing  *)
(* changes only is_free, price and currency; clean_tags changes only tags;  *)
(* transform_events leaves the events it filtered out unmodified.           *)

\* the event at position i of the list evs is neither cancelled nor past
ActiveIn(h, evs, cutoff, i) ==
    ~h[evs[i]].is_cancelled /\ ~IsPast(h[evs[i]], cutoff)

\* the event at position i of the list evs is filtered out: it is cancelled,
\* past, or a later occurrence of the id of an active event
FilteredOutOf(h, evs, cutoff, i) ==
    \/ ~ActiveIn(h, evs, cutoff, i)
    \/ \E j \in 1..(i - 1) :
           /\ h[evs[j]].event_id = h[evs[i]].event_id
           /\ ActiveIn(h, evs, cutoff, j)

\* position i is filtered out by the call just entered
FilteredOut(i) == FilteredOutOf(call.heap, events, EffectiveCutoff, i)

C13_Frame ==
    [][/\ DOMAIN heap' = DOMAIN heap
       /\ \A r \in DOMAIN heap : heap'[r].event_id = heap[r].event_id
       /\ call'.fn \in {"filter_cancelled", "filter_past_events", "deduplicate"}
            => (heap' = heap /\ events' = events)
       /\ call'.fn = "normalize_pricing" =>
            \A r \in DOMAIN heap :
                heap'[r] = IF r = call'.ref
                           THEN [heap[r] EXCEPT !.is_free = heap'[r].is_free,
                                                !.price = heap'[r].price,
                                                !.currency = heap'[r].currency]
                           ELSE heap[r]
       /\ call'.fn = "clean_tags" =>
            \A r \in DOMAIN heap :
                heap'[r] = IF r = call'.ref
                           THEN [heap[r] EXCEPT !.tags = heap'[r].tags]
                           ELSE heap[r]
       /\ call'.fn = "transform_events" =>
            \A i \in DOMAIN events :
                heap'[events[i]] # heap[events[i]] =>
                    ~FilteredOutOf(heap, events,
                                   IF call'.cutoff = None THEN call'.today
                                   ELSE call'.cutoff, i)
      ]_vars

\* transform_events was given the active event "a" followed by a second
\* event with the id "a": the first is rewritten, the second is as it was,
\* although its price and tags are not normalized.
C13_Witness ==
    /\ call.fn = "transform_events"
    /\ Len(events) = 2
    /\ Active(1) /\ Active(2) /\ FilteredOut(2)
    /\ heap[events[1]] # Given(1)
    /\ heap[events[1]].event_id = Given(1).event_id
    /\ heap[events[2]] = Given(2)
    /\ Given(2).price = Some(<<"2", "5", ".", "0", "0">>)
    /\ Len(Given(2).tags) = 2

---------------------------------------------------------------------------
(* C14: a second call of transform_events on the same list of (already      *)
(* rewritten) Event objects with the same cutoff returns a list of records  *)
(* equal to the list the first call returned, record by record and in the   *)
(* same order.                                                              *)
C14_Rerun ==
    [][(/\ call.fn = "transform_events"
        /\ call'.fn = "transform_events"
        /\ call'.cutoff = call.cutoff
        /\ call'.today = call.today)
       => (ret'.results = ret.results /\ ret'.raised = ret.raised)]_vars

\* transform_events was entered with two Events that an earlier call has
\* rewritten (the price "25.00" is "$25.00", the event priced "0.00" is free,
\* the tags are deduplicated) and returned their two records.
C14_Witness ==
    /\ call.fn = "transform_events"
    /\ Len(events) = 2 /\ Len(Results) = 2
    /\ Given(1).price = Some(<<"$", "2", "5", ".", "0", "0">>)
    /\ Len(Given(1).tags) = 1
    /\ Given(2).is_free /\ Given(2).price = None /\ Given(2).start_date = None
    /\ Len(Given(2).tags) = 1
    /\ Results[1].display_price = <<"$", "2", "5", ".", "0", "0">>
    /\ Results[2].display_price = <<"F", "r", "e", "e">>

============================================================================
